---- MODULE Spec2Model ----
(***************************************************************************)
(* Model of the wind-gust alert service (src/main.go): configuration       *)
(* loading, the daily forecast evaluation, and the fixed-clock-time        *)
(* scheduler loop.                                                         *)
(*                                                                         *)
(* Units.  Instants are whole seconds counted from a local midnight; the   *)
(* location has a fixed UTC offset (no daylight-saving shift).  Gusts and  *)
(* thresholds are float64 in the source and are kept here in tenths of a   *)
(* metre per second (15.0 m/s = 150), which preserves every comparison.    *)
(* Strings that the program parses are sequences of one-character strings. *)
(***************************************************************************)
EXTENDS Integers, Sequences, FiniteSets, TLC

VARIABLES
    pc,            \* position of the single thread of control
    env,           \* the process environment (os.Getenv)
    config,        \* *Config returned by loadConfig, or NoConfig
    now,           \* the wall clock (time.Now())
    nextSend,      \* main: nextSend of the current loop iteration
    immediate,     \* main: whether the start-up branch ran a check
    weatherData,   \* checkWeatherAndAlert: weatherData.List, or NoData
    startOfDay,    \* checkWeatherForTheDay: startOfDay of the evaluation
    exceeds,       \* checkWeatherAndAlert: exceedsThreshold
    forecasts,     \* checkWeatherAndAlert: forecasts
    maxWindGust,   \* checkWeatherAndAlert: maxWindGust
    outcome,       \* what the most recently finished check logged
    steps,         \* the calls the current check has made, with their results
    served,        \* history: the occurrence of HH:MM the last loop check ran for
    restarts,      \* history: how often the process has been restarted
    ticker         \* fixed-interval variant: the time.Ticker, or NoTicker

vars == << pc, env, config, now, nextSend, immediate, weatherData,
           startOfDay, exceeds, forecasts, maxWindGust, outcome,
           steps, served, restarts, ticker >>

-----------------------------------------------------------------------------
(* Bounds of the model *)

\* longest forecast list enumerated for the evaluator
MaxList == 3
\* longest EMAIL_TO string enumerated for the recipient parser
MaxLen == 4
\* how often the process is restarted in the runs with restarts
MaxRestarts == 1

-----------------------------------------------------------------------------
(* Time *)

Minute == 60
Hour == 60 * Minute
Day == 24 * Hour

\* endOfDay := startOfDay.Add(19 * time.Hour)
WindowHours == 19
\* now.Minute() < config.NotificationMin+5
CatchUpMinutes == 5

NoTime == 0 - 1

NoTicker == [next |-> NoTime, buffered |-> FALSE, dropped |-> FALSE]

\* time.Time.After / time.Time.Before
After(t, u) == t > u
Before(t, u) == t < u

\* time.Date(now.Year(), now.Month(), now.Day(), h, m, 0, 0, now.Location())
DateOf(t, h, m) == (t - (t % Day)) + h * Hour + m * Minute

HourOf(t) == (t % Day) \div Hour
MinuteOf(t) == (t % Hour) \div Minute

-----------------------------------------------------------------------------
(* Forecast evaluation *)

\* weatherData before the forecast has been fetched
NoData == << [nodata |-> TRUE] >>

\* a DailyForecast, reduced to the fields the program reads
Point(dt, gust) == [dt |-> dt, gust |-> gust]

InWindowNoEnd(forecastTime, start) == After(forecastTime, start)

\* forecastTime.After(startOfDay) && forecastTime.Before(endOfDay)
InWindow(forecastTime, start) ==
    /\ After(forecastTime, start)
    /\ Before(forecastTime, start + WindowHours * Hour)

ExceedsThresholdGE(windGust, threshold) == windGust >= threshold

\* windGust > threshold
ExceedsThreshold(windGust, threshold) == windGust > threshold

RECURSIVE scanForecasts(_, _, _, _, _)
scanForecasts(list, i, threshold, start, acc) ==
    IF i > Len(list) THEN acc
    ELSE LET forecast == list[i]
             forecastTime == forecast.dt
             windGust == forecast.gust
             hit == /\ InWindow(forecastTime, start)
                    /\ ExceedsThreshold(windGust, threshold)
         IN scanForecasts(list, i + 1, threshold, start,
                IF hit
                THEN [exceedsThreshold |-> TRUE,
                      forecasts |-> Append(acc.forecasts,
                                      [Time |-> forecastTime,
                                       WindGust |-> windGust])]
                ELSE acc)

\* checkWeatherForTheDay(weatherData, threshold), with the clock it reads
checkWeatherForTheDay(list, threshold, t) ==
    scanForecasts(list, 1, threshold, DateOf(t, 0, 0),
                  [exceedsThreshold |-> FALSE, forecasts |-> << >>])

RECURSIVE maxLoop(_, _, _)
maxLoop(fs, i, max) ==
    IF i > Len(fs) THEN max
    ELSE maxLoop(fs, i + 1, IF fs[i].WindGust > max THEN fs[i].WindGust ELSE max)

findMaxWindGustFirst(fs) == IF Len(fs) = 0 THEN 0 ELSE fs[1].WindGust

findMaxWindGust(fs) ==
    IF Len(fs) = 0 THEN 0 ELSE maxLoop(fs, 1, fs[1].WindGust)

-----------------------------------------------------------------------------
(* Configuration loading *)

NoConfig == [error |-> "no config"]

Loaded == config # NoConfig

\* strings.Contains(s, sep) for a one-character sep
Contains(s, sep) == \E i \in 1..Len(s) : s[i] = sep

\* index of the first sep in s, or 0
RECURSIVE IndexFrom(_, _, _)
IndexFrom(s, sep, i) ==
    IF i > Len(s) THEN 0
    ELSE IF s[i] = sep THEN i
    ELSE IndexFrom(s, sep, i + 1)

\* strings.Split(s, sep) for a one-character sep: n separators give n+1 pieces
RECURSIVE Split(_, _)
Split(s, sep) ==
    LET k == IndexFrom(s, sep, 1)
    IN IF k = 0 THEN << s >>
       ELSE << SubSeq(s, 1, k - 1) >> \o Split(SubSeq(s, k + 1, Len(s)), sep)

IsSpace(c) == c = " "

RECURSIVE TrimLeft(_)
TrimLeft(s) ==
    IF Len(s) > 0 /\ IsSpace(s[1]) THEN TrimLeft(Tail(s)) ELSE s

RECURSIVE TrimRight(_)
TrimRight(s) ==
    IF Len(s) > 0 /\ IsSpace(s[Len(s)])
    THEN TrimRight(SubSeq(s, 1, Len(s) - 1))
    ELSE s

\* strings.TrimSpace
TrimSpace(s) == TrimRight(TrimLeft(s))

\* the loop that appends the non-empty entries to cleanEmailTo
RECURSIVE DropEmpty(_)
DropEmpty(list) ==
    IF list = << >> THEN << >>
    ELSE IF Head(list) # << >>
         THEN << Head(list) >> \o DropEmpty(Tail(list))
         ELSE DropEmpty(Tail(list))

\* the first separator found decides: "," if present, else ";", else none
splitEmailTo(emailToStr) ==
    IF Contains(emailToStr, ",") THEN Split(emailToStr, ",")
    ELSE IF Contains(emailToStr, ";") THEN Split(emailToStr, ";")
    ELSE << emailToStr >>

\* loadConfig: emailTo from EMAIL_TO
parseEmailTo(emailToStr) ==
    IF emailToStr = << >> THEN << >>
    ELSE LET emailTo == splitEmailTo(emailToStr)
             trimmed == [i \in 1..Len(emailTo) |-> TrimSpace(emailTo[i])]
         IN DropEmpty(trimmed)

Digits == << "0", "1", "2", "3", "4", "5", "6", "7", "8", "9" >>
IsDigit(c) == \E d \in 1..10 : Digits[d] = c
DigitVal(c) == (CHOOSE d \in 1..10 : Digits[d] = c) - 1

RECURSIVE DigitsValue(_, _)
DigitsValue(s, acc) ==
    IF s = << >> THEN acc ELSE DigitsValue(Tail(s), 10 * acc + DigitVal(Head(s)))

AllDigits(s) == Len(s) > 0 /\ \A i \in 1..Len(s) : IsDigit(s[i])

\* strconv.Atoi: an optional sign, then decimal digits only
Atoi(s) ==
    LET signed == Len(s) > 0 /\ s[1] \in {"+", "-"}
        body == IF signed THEN Tail(s) ELSE s
    IN IF AllDigits(body)
       THEN [ok |-> TRUE,
             val |-> IF signed /\ s[1] = "-"
                     THEN 0 - DigitsValue(body, 0)
                     ELSE DigitsValue(body, 0)]
       ELSE [ok |-> FALSE, val |-> 0]

\* strconv.ParseFloat(s, 64) on the decimal forms "d+" and "d+.d" with an
\* optional sign (the forms the model's environments use), in tenths;
\* any other text of the model's environments is a syntax error
ParseFloat(s) ==
    LET signed == Len(s) > 0 /\ s[1] \in {"+", "-"}
        body == IF signed THEN Tail(s) ELSE s
        dot == IndexFrom(body, ".", 1)
        whole == IF dot = 0 THEN body ELSE SubSeq(body, 1, dot - 1)
        frac == IF dot = 0 THEN << "0" >> ELSE SubSeq(body, dot + 1, Len(body))
        good == AllDigits(whole) /\ Len(frac) = 1 /\ AllDigits(frac)
        mag == IF good THEN 10 * DigitsValue(whole, 0) + DigitsValue(frac, 0) ELSE 0
    IN [ok |-> good,
        val |-> IF signed /\ s[1] = "-" THEN 0 - mag ELSE mag]

\* windGustThreshold := 15.0
DefaultThreshold == 150
\* notificationHour := 9
DefaultHour == 9
\* notificationMin := 0
DefaultMin == 0

thresholdOf(e) ==
    LET p == ParseFloat(e.WIND_GUST_THRESHOLD)
    IN IF e.WIND_GUST_THRESHOLD # << >> /\ p.ok THEN p.val ELSE DefaultThreshold

hourOfInclusive(e) ==
    LET p == Atoi(e.NOTIFICATION_HOUR)
    IN IF e.NOTIFICATION_HOUR # << >> /\ p.ok /\ p.val >= 0 /\ p.val <= 24
       THEN p.val ELSE DefaultHour

hourOf(e) ==
    LET p == Atoi(e.NOTIFICATION_HOUR)
    IN IF e.NOTIFICATION_HOUR # << >> /\ p.ok /\ p.val >= 0 /\ p.val < 24
       THEN p.val ELSE DefaultHour

minOf(e) ==
    LET p == Atoi(e.NOTIFICATION_MIN)
    IN IF e.NOTIFICATION_MIN # << >> /\ p.ok /\ p.val >= 0 /\ p.val < 60
       THEN p.val ELSE DefaultMin

\* the Config literal of loadConfig
buildConfig(e) ==
    [OpenWeatherAPIKey |-> e.OPENWEATHER_API_KEY,
     City              |-> e.CITY,
     EmailFrom         |-> e.EMAIL_FROM,
     EmailTo           |-> parseEmailTo(e.EMAIL_TO),
     SMTPServer        |-> e.SMTP_SERVER,
     SMTPPort          |-> e.SMTP_PORT,
     SMTPUser          |-> e.SMTP_USER,
     SMTPPassword      |-> e.SMTP_PASSWORD,
     WindGustThreshold |-> thresholdOf(e),
     NotificationHour  |-> hourOf(e),
     NotificationMin   |-> minOf(e)]

\* the required-field checks of loadConfig: TRUE when it returns an error
configError(c) ==
    \/ c.OpenWeatherAPIKey = ""
    \/ c.City = ""
    \/ Len(c.EmailTo) = 0
    \/ c.SMTPServer = "" \/ c.SMTPPort = ""

\* loadConfig(): the configuration, or NoConfig with the error
loadConfig(e) ==
    LET c == buildConfig(e)
    IN IF configError(c) THEN NoConfig ELSE c

-----------------------------------------------------------------------------
(* Scheduling *)

getNextSendTimeSameDay(c, t) ==
    DateOf(t, c.NotificationHour, c.NotificationMin)

\* getNextSendTime(config), with the clock it reads
getNextSendTime(c, t) ==
    LET today == DateOf(t, c.NotificationHour, c.NotificationMin)
    IN IF After(t, today) THEN today + 24 * Hour ELSE today

startupCheckDueAnyHour(c, t) ==
    /\ MinuteOf(t) >= c.NotificationMin
    /\ MinuteOf(t) < c.NotificationMin + CatchUpMinutes

\* the start-up test of main: now.Hour() == NotificationHour &&
\* now.Minute() >= NotificationMin && now.Minute() < NotificationMin+5
startupCheckDue(c, t) ==
    /\ HourOf(t) = c.NotificationHour
    /\ MinuteOf(t) >= c.NotificationMin
    /\ MinuteOf(t) < c.NotificationMin + CatchUpMinutes

alertDueOnce(exceedsThreshold) == exceedsThreshold /\ outcome # "sent"

\* checkWeatherAndAlert: if exceedsThreshold { ... send ... }
alertDue(exceedsThreshold) == exceedsThreshold

AfterFailureRetry == "geocode"

AfterFailureFallThrough == "send"

AfterFailureFatal == "exited"

\* where control goes when a check logs a failure and returns: back to main,
\* which goes on to the top of its loop
AfterFailure == "loop"

\* mail.ParseAddress accepts an entry: here, one made of address characters
\* only (no blank and no list separator inside it)
ValidAddress(r) == Len(r) > 0 /\ \A i \in 1..Len(r) : r[i] = "a"

\* sendEmail cannot succeed when FromFormat or To rejects an address
sendCanSucceed(c) ==
    /\ c.EmailFrom # ""
    /\ \A i \in 1..Len(c.EmailTo) : ValidAddress(c.EmailTo[i])

-----------------------------------------------------------------------------
(* Inputs of the model *)

BaseEnv ==
    [OPENWEATHER_API_KEY |-> "key",
     CITY                |-> "Moscow,RU",
     EMAIL_FROM          |-> "from@x.com",
     EMAIL_TO            |-> << "a" >>,
     SMTP_SERVER         |-> "mail.x.com",
     SMTP_PORT           |-> "587",
     SMTP_USER           |-> "user",
     SMTP_PASSWORD       |-> "password",
     WIND_GUST_THRESHOLD |-> << >>,
     NOTIFICATION_HOUR   |-> << >>,
     NOTIFICATION_MIN    |-> << >>]

PlainSettings ==
    {"OPENWEATHER_API_KEY", "CITY", "EMAIL_FROM", "SMTP_SERVER", "SMTP_PORT",
     "SMTP_USER", "SMTP_PASSWORD"}

\* BaseEnv with the settings of `unset` empty
Without(unset) ==
    [k \in DOMAIN BaseEnv |-> IF k \in unset THEN "" ELSE BaseEnv[k]]

EmailToSamples ==
    { << >>, << "a" >>, << "a", ",", " ", "a" >>, << "a", ";", "a", ",", "a" >> }

HourEnvsMain == { << >>, << "0" >>, << "2", "3" >> }
MinEnvsMain == { << >>, << "5", "5" >>, << "5", "7" >>, << "5", "9" >> }
ThresholdEnvsMain == { << >>, << "1", "6", ".", "5" >> }

\* the environments of the scheduler runs: every setting present with the
\* notification time and threshold varied, or the defaults with at most one
\* plain setting empty and EMAIL_TO varied
MainEnvs ==
    { [BaseEnv EXCEPT !.NOTIFICATION_HOUR = h, !.NOTIFICATION_MIN = m,
                      !.WIND_GUST_THRESHOLD = w] :
        h \in HourEnvsMain, m \in MinEnvsMain, w \in ThresholdEnvsMain }
    \cup
    { [Without(u) EXCEPT !.EMAIL_TO = to] :
        u \in { {} } \cup { {k} : k \in PlainSettings }, to \in EmailToSamples }

\* the instants at which the process may be started
StartTimes ==
    { h * Hour + m * Minute + sec :
        h \in {0, 9, 10, 23}, m \in {0, 2, 4, 5, 55, 57, 59}, sec \in {0, 59} }

\* how long a network call may take, and how late a sleep may end; 0 is a
\* call that returns within one reading of the clock
Elapsed == {0, 1, 61}
Late == {0, 1}

\* forecast points are placed relative to the local midnight of the request
Offsets == {0 - 3 * Hour, 0, 11 * Hour, 19 * Hour}
Gusts == {150, 165, 201}

PointsAt(start) == { Point(start + o, g) : o \in Offsets, g \in Gusts }

\* the points of the responses in the scheduler runs
ResponsePointsAt(start) ==
    { Point(start + o, g) : o \in {0, 11 * Hour, 19 * Hour}, g \in {150, 201} }

\* the scenario 08:00/12.0, 11:00/16.5, 14:00/20.1, 21:00/30.0
Scenario(start) ==
    << Point(start + 8 * Hour, 120), Point(start + 11 * Hour, 165),
       Point(start + 14 * Hour, 201), Point(start + 21 * Hour, 300) >>

\* every forecast list of at most n of the points, and the scenario
ForecastLists(start, n) ==
    UNION { [1..k -> PointsAt(start)] : k \in 0..n } \cup { Scenario(start) }

\* the forecast lists a request may return in the scheduler runs
Responses(start) ==
    UNION { [1..k -> ResponsePointsAt(start)] : k \in 0..2 } \cup { Scenario(start) }

-----------------------------------------------------------------------------
(* The program *)

Outcomes ==
    {"none", "geocode_error", "fetch_error", "no_data", "no_alert",
     "compose_error", "send_error", "sent"}

Failures == {"geocode_error", "fetch_error", "compose_error", "send_error"}

Init ==
    /\ pc = "main"
    /\ env \in MainEnvs
    /\ config = NoConfig
    /\ now \in StartTimes
    /\ nextSend = NoTime
    /\ immediate = FALSE
    /\ weatherData = NoData
    /\ startOfDay = NoTime
    /\ exceeds = FALSE
    /\ forecasts = << >>
    /\ maxWindGust = 0
    /\ outcome = "none"
    /\ steps = << >>
    /\ served = NoTime
    /\ restarts = 0
    /\ ticker = NoTicker

\* the locals of a call of checkWeatherAndAlert, before it has run
FreshLocals ==
    /\ weatherData' = NoData
    /\ startOfDay' = NoTime
    /\ exceeds' = FALSE
    /\ forecasts' = << >>
    /\ maxWindGust' = 0

KeepLocals == UNCHANGED << weatherData, startOfDay, exceeds, forecasts, maxWindGust >>

\* a call of the check, appended to the calls made so far
Called(step, ok) == steps' = Append(steps, [step |-> step, ok |-> ok])

KeepHistory == UNCHANGED << served, restarts, ticker >>

\* main: config, err := loadConfig(); log.Fatalf on an error (exit status 1)
LoadConfig ==
    /\ pc = "main"
    /\ config' = loadConfig(env)
    /\ pc' = IF config' = NoConfig THEN "exited" ELSE "startup"
    /\ UNCHANGED << env, now, nextSend, immediate, outcome, steps >>
    /\ KeepLocals
    /\ KeepHistory

\* main: the check at start-up, only inside the window after the send time
Startup ==
    /\ pc = "startup"
    /\ immediate' = startupCheckDue(config, now)
    /\ pc' = IF immediate' THEN "geocode" ELSE "loop"
    /\ UNCHANGED << env, config, now, nextSend, outcome, steps >>
    /\ KeepLocals
    /\ KeepHistory

\* main loop: nextSend := getNextSendTime(config)
Schedule ==
    /\ pc = "loop"
    /\ nextSend' = getNextSendTime(config, now)
    /\ pc' = "sleeping"
    /\ UNCHANGED << env, config, now, immediate, outcome, steps >>
    /\ KeepLocals
    /\ KeepHistory

\* main loop: time.Sleep(waitDuration), then checkWeatherAndAlert(config) is
\* entered.  The clock is counted again from the local midnight of the day
\* the sleep ends.
Wake ==
    /\ pc = "sleeping"
    /\ \E late \in Late :
          LET woken == (IF nextSend > now THEN nextSend ELSE now) + late
          IN /\ now' = woken % Day
             /\ served' = nextSend - (woken - (woken % Day))
    /\ nextSend' = NoTime
    /\ pc' = "geocode"
    /\ FreshLocals
    /\ steps' = << >>
    /\ UNCHANGED << env, config, immediate, outcome, restarts, ticker >>

\* getWeatherData: location, err := getGeoCoordinates(config)
Geocode ==
    /\ pc = "geocode"
    /\ \E d \in Elapsed : now' = now + d
    /\ \/ /\ pc' = "fetch"
          /\ Called("geocode", TRUE)
          /\ UNCHANGED outcome
       \/ /\ pc' = AfterFailure
          /\ Called("geocode", FALSE)
          /\ outcome' = "geocode_error"
    /\ UNCHANGED << env, config, nextSend, immediate >>
    /\ KeepLocals
    /\ KeepHistory

\* getWeatherData: the forecast request, read and decoded
Fetch ==
    /\ pc = "fetch"
    /\ \E d \in Elapsed : now' = now + d
    /\ \/ /\ weatherData' \in Responses(DateOf(now, 0, 0))
          /\ pc' = "evaluate"
          /\ Called("fetch", TRUE)
          /\ UNCHANGED outcome
       \/ /\ pc' = AfterFailure
          /\ Called("fetch", FALSE)
          /\ outcome' = "fetch_error"
          /\ UNCHANGED weatherData
    /\ UNCHANGED << env, config, nextSend, immediate, startOfDay, exceeds,
                    forecasts, maxWindGust >>
    /\ KeepHistory

\* checkWeatherAndAlert: the empty-list return, checkWeatherForTheDay and
\* findMaxWindGust
Evaluate ==
    /\ pc = "evaluate"
    /\ IF Len(weatherData) = 0
       THEN /\ outcome' = "no_data"
            /\ pc' = "loop"
            /\ UNCHANGED << startOfDay, exceeds, forecasts, maxWindGust, steps >>
       ELSE LET r == checkWeatherForTheDay(weatherData,
                                           config.WindGustThreshold, now)
            IN /\ startOfDay' = DateOf(now, 0, 0)
               /\ exceeds' = r.exceedsThreshold
               /\ forecasts' = r.forecasts
               /\ Called("evaluate", TRUE)
               /\ IF alertDue(r.exceedsThreshold)
                  THEN /\ maxWindGust' = findMaxWindGust(r.forecasts)
                       /\ pc' = "compose"
                       /\ UNCHANGED outcome
                  ELSE /\ outcome' = "no_alert"
                       /\ pc' = "loop"
                       /\ UNCHANGED maxWindGust
    /\ UNCHANGED << env, config, now, nextSend, immediate, weatherData >>
    /\ KeepHistory

\* checkWeatherAndAlert: generateEmailBodies, whose error return the caller
\* handles
Compose ==
    /\ pc = "compose"
    /\ \/ /\ pc' = "send"
          /\ Called("compose", TRUE)
          /\ UNCHANGED outcome
       \/ /\ pc' = AfterFailure
          /\ Called("compose", FALSE)
          /\ outcome' = "compose_error"
    /\ UNCHANGED << env, config, now, nextSend, immediate >>
    /\ KeepLocals
    /\ KeepHistory

\* checkWeatherAndAlert: sendEmail
Send ==
    /\ pc = "send"
    /\ \E d \in Elapsed : now' = now + d
    /\ \/ /\ sendCanSucceed(config)
          /\ Called("send", TRUE)
          /\ outcome' = "sent"
          /\ pc' = "loop"
       \/ /\ Called("send", FALSE)
          /\ outcome' = "send_error"
          /\ pc' = AfterFailure
    /\ UNCHANGED << env, config, nextSend, immediate >>
    /\ KeepLocals
    /\ KeepHistory

Next ==
    \/ LoadConfig
    \/ Startup
    \/ Schedule
    \/ Wake
    \/ Geocode
    \/ Fetch
    \/ Evaluate
    \/ Compose
    \/ Send

Spec == Init /\ [][Next]_vars

\* every step of the single thread completes: the calls time out, sleeps end
FairSpec == Spec /\ WF_vars(Next)

-----------------------------------------------------------------------------
(* The program under a supervisor that restarts it (Restart=always)          *)


InCheck == pc \in {"geocode", "fetch", "evaluate", "compose", "send"}

\* how long the process is down: RestartSec=5, or longer than the catch-up
\* window
Downtime == {5, 6 * Minute}

\* the process is killed and started again; what it had in memory is gone.
\* A check that was cut short does not count as the check of its occurrence.
Restart ==
    /\ Loaded
    /\ restarts < MaxRestarts
    /\ restarts' = restarts + 1
    /\ \E d \in Downtime : now' = now + d
    /\ pc' = "main"
    /\ config' = NoConfig
    /\ nextSend' = NoTime
    /\ immediate' = FALSE
    /\ FreshLocals
    /\ steps' = << >>
    /\ outcome' = "none"
    /\ served' = IF InCheck THEN NoTime ELSE served
    /\ UNCHANGED << env, ticker >>

NextRestart == Next \/ Restart

SpecRestart == Init /\ [][NextRestart]_vars

-----------------------------------------------------------------------------
(* The fixed-interval variant of the program *)

\* const WindGustThreshold = 15.0
WindGustThreshold == 150

\* const CheckInterval = 3 * time.Hour
CheckInterval == 3 * Hour

\* the forecast request at its slowest: with the slowest geocoding and send
\* the check then lasts one CheckInterval
SlowFetch == CheckInterval - 2 * Minute - 2

GeocodeElapsed == Elapsed
FetchElapsed == Elapsed \cup {SlowFetch}

\* loadConfig of the variant: EMAIL_TO is one recipient, taken whole
intervalBuildConfig(e) ==
    [OpenWeatherAPIKey |-> e.OPENWEATHER_API_KEY,
     City              |-> e.CITY,
     EmailFrom         |-> e.EMAIL_FROM,
     EmailTo           |-> IF e.EMAIL_TO = << >> THEN << >> ELSE << e.EMAIL_TO >>,
     SMTPServer        |-> e.SMTP_SERVER,
     SMTPPort          |-> e.SMTP_PORT,
     SMTPUser          |-> e.SMTP_USER,
     SMTPPassword      |-> e.SMTP_PASSWORD]

intervalConfigError(c) ==
    \/ c.OpenWeatherAPIKey = ""
    \/ c.City = ""
    \/ Len(c.EmailTo) = 0
    \/ c.SMTPServer = "" \/ c.SMTPPort = ""

intervalLoadConfig(e) ==
    LET c == intervalBuildConfig(e)
    IN IF intervalConfigError(c) THEN NoConfig ELSE c

lastForecast(list) == list[Len(list)]

\* todayForecast := weatherData.List[0]
todayForecast(list) == list[1]

\* time.NewTicker(CheckInterval): the first tick is one interval away and the
\* channel is empty
NewTicker == [next |-> CheckInterval, buffered |-> FALSE, dropped |-> FALSE]

\* the ticker after d more seconds: every CheckInterval it puts a tick into
\* its channel of capacity one, and a tick that finds the channel full is
\* dropped
TickerAfter(t, d) ==
    IF t = NoTicker THEN t
    ELSE IF d < t.next THEN [t EXCEPT !.next = t.next - d]
    ELSE LET fired == 1 + ((d - t.next) \div CheckInterval)
         IN [next     |-> t.next + fired * CheckInterval - d,
             buffered |-> TRUE,
             dropped  |-> t.dropped \/ t.buffered \/ fired > 1]

\* where main goes on when checkWeatherAndAlert returns: to NewTicker after
\* the first check, to the select after the others
CheckReturns == IF ticker = NoTicker THEN "newticker" ELSE "select"

IntervalEnvs ==
    { [Without(u) EXCEPT !.EMAIL_TO = to] :
        u \in { {} } \cup { {k} : k \in PlainSettings },
        to \in { << >>, << "a" >>, << "a", ",", "a" >> } }

\* the forecast lists a response may carry; the variant reads the gusts only
IntervalResponses ==
    { << >> }
    \cup { << Point(0, g) >> : g \in {WindGustThreshold, 201} }
    \cup { << Point(0, g), Point(CheckInterval, h) >> :
             g \in {WindGustThreshold, 201}, h \in {WindGustThreshold, 201} }

InitInterval ==
    /\ pc = "main"
    /\ env \in IntervalEnvs
    /\ config = NoConfig
    /\ now = 0
    /\ nextSend = NoTime
    /\ immediate = FALSE
    /\ weatherData = NoData
    /\ startOfDay = NoTime
    /\ exceeds = FALSE
    /\ forecasts = << >>
    /\ maxWindGust = 0
    /\ outcome = "none"
    /\ steps = << >>
    /\ served = NoTime
    /\ restarts = 0
    /\ ticker = NoTicker

\* what the variant never assigns
IntervalUnused ==
    UNCHANGED << env, now, nextSend, immediate, startOfDay, forecasts, served,
                 restarts >>

\* main: loadConfig, log.Fatalf on an error, else the first check at once
IntervalLoadConfig ==
    /\ pc = "main"
    /\ config' = intervalLoadConfig(env)
    /\ pc' = IF config' = NoConfig THEN "exited" ELSE "igeocode"
    /\ UNCHANGED << weatherData, exceeds, maxWindGust, outcome, steps, ticker >>
    /\ IntervalUnused

\* getWeatherData: getGeoCoordinates
IntervalGeocode ==
    /\ pc = "igeocode"
    /\ \E d \in GeocodeElapsed : ticker' = TickerAfter(ticker, d)
    /\ \/ /\ pc' = "ifetch"
          /\ Called("geocode", TRUE)
          /\ UNCHANGED outcome
       \/ /\ pc' = CheckReturns
          /\ Called("geocode", FALSE)
          /\ outcome' = "fetch_error"
    /\ UNCHANGED << config, weatherData, exceeds, maxWindGust >>
    /\ IntervalUnused

\* getWeatherData: the forecast request, read and decoded
IntervalFetch ==
    /\ pc = "ifetch"
    /\ \E d \in FetchElapsed : ticker' = TickerAfter(ticker, d)
    /\ \/ /\ weatherData' \in IntervalResponses
          /\ pc' = "ievaluate"
          /\ Called("fetch", TRUE)
          /\ UNCHANGED outcome
       \/ /\ pc' = CheckReturns
          /\ Called("fetch", FALSE)
          /\ outcome' = "fetch_error"
          /\ UNCHANGED weatherData
    /\ UNCHANGED << config, exceeds, maxWindGust >>
    /\ IntervalUnused

\* checkWeatherAndAlert: the empty-list return and the test of the first
\* forecast against the threshold
IntervalEvaluate ==
    /\ pc = "ievaluate"
    /\ IF Len(weatherData) = 0
       THEN /\ outcome' = "no_data"
            /\ pc' = CheckReturns
            /\ UNCHANGED << exceeds, maxWindGust, steps >>
       ELSE LET windGust == todayForecast(weatherData).gust
            IN /\ maxWindGust' = windGust
               /\ exceeds' = (windGust > WindGustThreshold)
               /\ Called("evaluate", TRUE)
               /\ IF exceeds'
                  THEN pc' = "isend" /\ UNCHANGED outcome
                  ELSE pc' = CheckReturns /\ outcome' = "no_alert"
    /\ UNCHANGED << config, weatherData, ticker >>
    /\ IntervalUnused

\* checkWeatherAndAlert: sendEmail, which gives up after 30 seconds
IntervalSend ==
    /\ pc = "isend"
    /\ \E d \in Elapsed : ticker' = TickerAfter(ticker, d)
    /\ \/ /\ sendCanSucceed(config)
          /\ Called("send", TRUE)
          /\ outcome' = "sent"
       \/ /\ Called("send", FALSE)
          /\ outcome' = "send_error"
    /\ pc' = CheckReturns
    /\ UNCHANGED << config, weatherData, exceeds, maxWindGust >>
    /\ IntervalUnused

\* main: ticker := time.NewTicker(CheckInterval), after the first check
CreateTicker ==
    /\ pc = "newticker"
    /\ ticker' = NewTicker
    /\ pc' = "select"
    /\ UNCHANGED << config, weatherData, exceeds, maxWindGust, outcome, steps >>
    /\ IntervalUnused

\* main: case <-ticker.C, then checkWeatherAndAlert(config) is entered; the
\* receive takes the tick in the channel, or waits for the next one
Select ==
    /\ pc = "select"
    /\ ticker' = IF ticker.buffered
                 THEN [ticker EXCEPT !.buffered = FALSE]
                 ELSE [ticker EXCEPT !.next = CheckInterval]
    /\ pc' = "igeocode"
    /\ weatherData' = NoData
    /\ exceeds' = FALSE
    /\ maxWindGust' = 0
    /\ steps' = << >>
    /\ UNCHANGED << config, outcome >>
    /\ IntervalUnused

NextInterval ==
    \/ IntervalLoadConfig
    \/ IntervalGeocode
    \/ IntervalFetch
    \/ IntervalEvaluate
    \/ IntervalSend
    \/ CreateTicker
    \/ Select

SpecInterval == InitInterval /\ [][NextInterval]_vars

\* every call of the variant returns and the runtime delivers the ticks
FairSpecInterval == SpecInterval /\ WF_vars(NextInterval)

-----------------------------------------------------------------------------
(* The evaluator on its own: checkWeatherForTheDay and findMaxWindGust       *)
(* applied to every forecast list of the bound                               *)

EvalTimes == {0, 9 * Hour, 23 * Hour + 59 * Minute + 59}

InitEval ==
    /\ pc = "eval"
    /\ env \in { [BaseEnv EXCEPT !.WIND_GUST_THRESHOLD = w] : w \in ThresholdEnvsMain }
    /\ config = loadConfig(env)
    /\ now \in EvalTimes
    /\ weatherData \in ForecastLists(DateOf(now, 0, 0), MaxList)
    /\ nextSend = NoTime
    /\ immediate = FALSE
    /\ startOfDay = NoTime
    /\ exceeds = FALSE
    /\ forecasts = << >>
    /\ maxWindGust = 0
    /\ outcome = "none"
    /\ steps = << >>
    /\ served = NoTime
    /\ restarts = 0
    /\ ticker = NoTicker

\* exceedsThreshold, forecasts := checkWeatherForTheDay(weatherData, threshold)
EvalCheck ==
    /\ pc = "eval"
    /\ LET r == checkWeatherForTheDay(weatherData, config.WindGustThreshold, now)
       IN /\ startOfDay' = DateOf(now, 0, 0)
          /\ exceeds' = r.exceedsThreshold
          /\ forecasts' = r.forecasts
    /\ pc' = "eval_checked"
    /\ UNCHANGED << env, config, now, nextSend, immediate, weatherData,
                    maxWindGust, outcome, steps >>
    /\ KeepHistory

\* maxWindGust := findMaxWindGust(forecasts)
EvalMax ==
    /\ pc = "eval_checked"
    /\ maxWindGust' = findMaxWindGust(forecasts)
    /\ pc' = "eval_done"
    /\ UNCHANGED << env, config, now, nextSend, immediate, weatherData,
                    startOfDay, exceeds, forecasts, outcome, steps >>
    /\ KeepHistory

NextEval == EvalCheck \/ EvalMax

SpecEval == InitEval /\ [][NextEval]_vars

-----------------------------------------------------------------------------
(* loadConfig on its own, over every environment of the bound                *)

Alphabet == {"a", " ", ",", ";"}

Strings(n) == UNION { [1..k -> Alphabet] : k \in 0..n }

HourEnvs ==
    { << >>, << "x" >>, << "1", "x" >>, << "-", "1" >>, << "0" >>, << "0", "7" >>,
      << "2", "3" >>, << "2", "4" >> }
MinEnvs ==
    { << >>, << "x" >>, << "-", "1" >>, << "0" >>, << "5", "7" >>, << "5", "9" >>,
      << "6", "0" >>, << "1", "2", "0" >> }
ThresholdEnvs ==
    { << >>, << "x" >>, << "1", "6", ".", "5" >>, << "-", "2" >> }

ConfigEnvs ==
    { [BaseEnv EXCEPT !.EMAIL_TO = to] : to \in Strings(MaxLen) }
    \cup
    { [Without(u) EXCEPT !.EMAIL_TO = to] :
        u \in SUBSET PlainSettings, to \in EmailToSamples }
    \cup
    { [BaseEnv EXCEPT !.NOTIFICATION_HOUR = h, !.NOTIFICATION_MIN = m,
                      !.WIND_GUST_THRESHOLD = w] :
        h \in HourEnvs, m \in MinEnvs, w \in ThresholdEnvs }

InitConfig ==
    /\ pc = "main"
    /\ env \in ConfigEnvs
    /\ config = NoConfig
    /\ now = 0
    /\ nextSend = NoTime
    /\ immediate = FALSE
    /\ weatherData = NoData
    /\ startOfDay = NoTime
    /\ exceeds = FALSE
    /\ forecasts = << >>
    /\ maxWindGust = 0
    /\ outcome = "none"
    /\ steps = << >>
    /\ served = NoTime
    /\ restarts = 0
    /\ ticker = NoTicker

NextConfig == LoadConfig

SpecConfig == InitConfig /\ [][NextConfig]_vars

-----------------------------------------------------------------------------
(* Properties of the evaluator *)

\* the daytime window as the specification words it: [startOfDay, startOfDay+19h)
DaytimeWindow(forecastTime, start) ==
    /\ start <= forecastTime
    /\ forecastTime < start + WindowHours * Hour

Evaluated == pc \in {"eval_checked", "eval_done"}

Qualifies(p) ==
    /\ DaytimeWindow(p.dt, startOfDay)
    /\ p.gust > config.WindGustThreshold

AsForecast(p) == [Time |-> p.dt, WindGust |-> p.gust]

\* C1: exceeds is true if and only if at least one forecast point inside
\* today's daytime window [startOfDay, startOfDay+19h) has a gust strictly
\* greater than the threshold.
C1_ExceedsIffWindowGust ==
    Evaluated =>
        (exceeds <=> \E i \in 1..Len(weatherData) : Qualifies(weatherData[i]))

\* C2: the window test is half-open: a point exactly at startOfDay counts as
\* in-window (so it is reported when its gust exceeds the threshold), and a
\* point exactly at startOfDay+19h counts as out-of-window (never reported).
C2_HalfOpenWindow ==
    Evaluated =>
        \A i \in 1..Len(weatherData) :
            LET p == weatherData[i]
            IN /\ (p.dt = startOfDay /\ p.gust > config.WindGustThreshold)
                    => \E j \in 1..Len(forecasts) : forecasts[j] = AsForecast(p)
               /\ (p.dt = startOfDay + WindowHours * Hour)
                    => \A j \in 1..Len(forecasts) : forecasts[j].Time # p.dt

\* C3: the returned list is exactly the subsequence of the input points that
\* are inside today's daytime window and exceed the threshold, in input order.
C3_QualifyingSubsequence ==
    Evaluated =>
        LET q == SelectSeq(weatherData, Qualifies)
        IN forecasts = [j \in 1..Len(q) |-> AsForecast(q[j])]

\* C4: findMaxWindGust returns a member of the list that is >= every member;
\* for an empty list it returns 0; an empty input list gives exceeds = FALSE
\* and an empty result.
C4_MaxOfQualifying ==
    pc = "eval_done" =>
        /\ Len(forecasts) = 0 => maxWindGust = 0
        /\ Len(forecasts) > 0 =>
              /\ \E j \in 1..Len(forecasts) : forecasts[j].WindGust = maxWindGust
              /\ \A j \in 1..Len(forecasts) : forecasts[j].WindGust <= maxWindGust
        /\ Len(weatherData) = 0 => (~exceeds /\ forecasts = << >>)

\* a list whose maximum is not its first element has been evaluated
C4_Witness ==
    /\ pc = "eval_done"
    /\ Len(forecasts) >= 2
    /\ forecasts[1].WindGust < maxWindGust

\* the check has run checkWeatherForTheDay on a list in which no point of the
\* daytime window is above the threshold
QuietCycle ==
    /\ startOfDay # NoTime
    /\ \A i \in 1..Len(weatherData) :
          DaytimeWindow(weatherData[i].dt, startOfDay)
              => weatherData[i].gust <= config.WindGustThreshold

\* C5: the comparison is strict: when every in-window point has gust <=
\* threshold (equal included), exceeds is false, the check never reaches
\* compose or send, and it ends with the "no alert needed" log, not an error.
C5_StrictThreshold ==
    (pc \in {"compose", "send", "loop", "sleeping"} /\ QuietCycle) =>
        /\ ~exceeds
        /\ forecasts = << >>
        /\ pc \in {"loop", "sleeping"}
        /\ outcome = "no_alert"

\* a check has ended on a list with an in-window gust equal to the threshold
C5_Witness ==
    /\ pc = "loop"
    /\ QuietCycle
    /\ \E i \in 1..Len(weatherData) :
          /\ InWindow(weatherData[i].dt, startOfDay)
          /\ weatherData[i].gust = config.WindGustThreshold

-----------------------------------------------------------------------------
(* Properties of configuration loading *)

IsDelimiter(c) == c \in {",", ";"}

\* the entries of a string in which "," and ";" both separate
RECURSIVE SplitAny(_, _)
SplitAny(s, piece) ==
    IF s = << >> THEN << piece >>
    ELSE IF IsDelimiter(Head(s))
         THEN << piece >> \o SplitAny(Tail(s), << >>)
         ELSE SplitAny(Tail(s), Append(piece, Head(s)))

RecipientsOf(s) ==
    LET parts == SplitAny(s, << >>)
    IN DropEmpty([i \in 1..Len(parts) |-> TrimSpace(parts[i])])

\* C6: the recipient list is what results from splitting EMAIL_TO at every
\* comma and every semicolon, trimming each entry and dropping the empty
\* ones; so each recipient is non-empty, trimmed and free of delimiters.
C6_BothDelimiters ==
    Loaded =>
        /\ config.EmailTo = RecipientsOf(env.EMAIL_TO)
        /\ \A i \in 1..Len(config.EmailTo) :
              LET r == config.EmailTo[i]
              IN /\ r # << >>
                 /\ ~IsSpace(r[1]) /\ ~IsSpace(r[Len(r)])
                 /\ \A k \in 1..Len(r) : ~IsDelimiter(r[k])

\* a required setting is empty in the environment
RequiredMissing ==
    \/ \E k \in PlainSettings : env[k] = ""
    \/ RecipientsOf(env.EMAIL_TO) = << >>

\* C7: if any required setting (API key, city, sender, recipients, SMTP host,
\* port, user, password) is empty, loadConfig fails and the process exits
\* before the loop: it is never anywhere but at its start or exited.
C7_FailFast ==
    RequiredMissing => pc \in {"main", "exited"}

-----------------------------------------------------------------------------
(* Properties of the scheduler *)

\* C8: once the configuration has loaded the process never exits, and after
\* a check that ended in a failure (geocoding, fetch or decode, compose,
\* send) the loop sleeps and the next check is eventually started.
C8_FailuresDoNotStop ==
    /\ [](Loaded => pc # "exited")
    /\ (outcome \in Failures /\ ~InCheck) ~> (pc = "geocode")

\* a check is starting after a check whose send failed
C8_Witness ==
    /\ pc = "geocode"
    /\ outcome = "send_error"

\* C9: getNextSendTime returns the next occurrence of the configured HH:MM:
\* today's if it has not yet passed, otherwise tomorrow's; never earlier than
\* the current time and never more than 24 hours after it.
C9_NextOccurrence ==
    pc = "sleeping" =>
        LET today == DateOf(now, config.NotificationHour, config.NotificationMin)
        IN /\ nextSend >= now
           /\ nextSend - now <= 24 * Hour
           /\ HourOf(nextSend) = config.NotificationHour
           /\ MinuteOf(nextSend) = config.NotificationMin
           /\ nextSend % Minute = 0
           /\ (today >= now) => nextSend = today
           /\ (today < now) => nextSend = today + Day

\* the send time has passed today and the next send is tomorrow's
C9_Witness ==
    /\ pc = "sleeping"
    /\ nextSend > now
    /\ nextSend = DateOf(now, config.NotificationHour, config.NotificationMin) + Day

\* the clock is within the five minutes that follow an occurrence of HH:MM
WithinCatchUp(c, t) ==
    LET sinceSlot == (t + Day - (c.NotificationHour * Hour
                                 + c.NotificationMin * Minute)) % Day
    IN sinceSlot < CatchUpMinutes * Minute

\* main has just taken its start-up branch (the clock is still the one it read)
JustStarted ==
    /\ outcome = "none"
    /\ \/ pc = "loop"
       \/ pc = "geocode" /\ immediate

\* C10: at start-up a check runs immediately if and only if
\* HH:MM <= now < HH:MM + 5 min, also when the window crosses an hour boundary.
C10_CatchUpWindow ==
    JustStarted => (immediate <=> WithinCatchUp(config, now))

-----------------------------------------------------------------------------
(* Properties of the notification time *)

\* the decimal numerals of v, without and with a leading zero
Numerals(v) ==
    IF v < 10 THEN { << Digits[v + 1] >>, << "0", Digits[v + 1] >> }
    ELSE { << Digits[(v \div 10) + 1], Digits[(v % 10) + 1] >> }

\* the number a setting names when it is a numeral of lo..hi-1, else the default
Intended(str, hi, default) ==
    IF \E v \in 0..(hi - 1) : str \in Numerals(v)
    THEN CHOOSE v \in 0..(hi - 1) : str \in Numerals(v)
    ELSE default

\* C11: whatever NOTIFICATION_HOUR and NOTIFICATION_MIN hold (absent,
\* non-numeric, negative, out of range), the configuration has
\* 0 <= hour < 24 and 0 <= minute < 60; an unusable value leaves the default
\* 9 resp. 0, and each field falls back on its own.
C11_NotificationTimeValid ==
    Loaded =>
        /\ config.NotificationHour \in 0..23
        /\ config.NotificationMin \in 0..59
        /\ config.NotificationHour = Intended(env.NOTIFICATION_HOUR, 24, 9)
        /\ config.NotificationMin = Intended(env.NOTIFICATION_MIN, 60, 0)

\* an out-of-range hour fell back while the minute beside it was taken
C11_Witness ==
    /\ Loaded
    /\ env.NOTIFICATION_HOUR = << "2", "4" >>
    /\ config.NotificationHour = DefaultHour
    /\ config.NotificationMin = 57

-----------------------------------------------------------------------------
(* Properties of one check *)

Pipeline == << "geocode", "fetch", "evaluate", "compose", "send" >>

TimesCalled(step) == Cardinality({ i \in 1..Len(steps) : steps[i].step = step })

\* C12: nothing is retried within a check: it makes at most one geocoding
\* request, one forecast request, one compose and one send attempt, whatever
\* fails.
C12_NoRetry ==
    \A i \in 1..Len(Pipeline) : TimesCalled(Pipeline[i]) <= 1

\* a check has ended after a failed send, having made each call once
C12_Witness ==
    /\ pc = "loop"
    /\ outcome = "send_error"
    /\ \A i \in 1..Len(Pipeline) : TimesCalled(Pipeline[i]) = 1

\* C13: the calls of a check follow the order geocode, fetch, evaluate,
\* compose, send and a failure ends the check at that call: only the last
\* call made can have failed; a send is attempted only after geocoding and
\* fetch succeeded, the list was non-empty, exceeds was true and the bodies
\* were composed; after a geocoding failure there is no forecast request.
C13_PipelineOrder ==
    /\ Len(steps) <= Len(Pipeline)
    /\ \A i \in 1..Len(steps) :
          /\ steps[i].step = Pipeline[i]
          /\ i < Len(steps) => steps[i].ok
    /\ (pc = "send" \/ TimesCalled("send") > 0) =>
          /\ \A i \in 1..4 : steps[i] = [step |-> Pipeline[i], ok |-> TRUE]
          /\ weatherData # NoData /\ Len(weatherData) > 0
          /\ exceeds
    /\ (~InCheck /\ outcome = "geocode_error" /\ steps # << >>) =>
          TimesCalled("fetch") = 0
    /\ (~InCheck /\ outcome \in {"fetch_error", "compose_error"}
                 /\ steps # << >>) =>
          TimesCalled("send") = 0

\* a check has ended at a failed compose, after three successful calls
C13_Witness ==
    /\ pc = "loop"
    /\ outcome = "compose_error"
    /\ Len(steps) = 4
    /\ ~steps[4].ok

-----------------------------------------------------------------------------
(* Properties of the daily schedule *)

\* C14: the loop runs exactly one check for each daily occurrence of HH:MM:
\* the occurrence it sleeps for next is the one that follows the occurrence
\* it last ran a check for -- not the same one again (also when that check
\* ended at the very instant it was scheduled), and not a later one.
C14_OneCheckPerOccurrence ==
    (pc = "sleeping" /\ served # NoTime) => nextSend = served + Day

\* the occurrence of HH:MM on the day of the clock
SlotOfDay == DateOf(now, config.NotificationHour, config.NotificationMin)

\* C15: the start-up rule avoids duplicates across a restart: a process
\* restarted shortly after the slot whose scheduled check already ran does
\* not check again for that slot; and a process started outside the five
\* minutes after HH:MM runs no check at start-up.
C15_NoDuplicateAcrossRestart ==
    /\ (JustStarted /\ immediate /\ restarts > 0) => served # SlotOfDay
    /\ (JustStarted /\ ~WithinCatchUp(config, now)) => ~immediate

\* C15 as amended: a process started in the hour HH with the minute in
\* MM..MM+4 runs a check at once, whether or not the slot's scheduled check
\* already ran; a process started outside the five minutes after HH:MM runs
\* none at start-up, and its first check runs at an occurrence of HH:MM.
C15_StartupRule ==
    /\ (JustStarted /\ HourOf(now) = config.NotificationHour
                    /\ MinuteOf(now) \in config.NotificationMin
                                         ..(config.NotificationMin + 4))
          => immediate
    /\ (JustStarted /\ ~WithinCatchUp(config, now)) => ~immediate
    /\ (pc = "geocode" /\ ~immediate /\ outcome = "none") =>
          /\ served = SlotOfDay
          /\ now - served \in Late

\* a restarted process checks at once for the slot already served
C15_Witness ==
    /\ JustStarted
    /\ immediate
    /\ restarts > 0
    /\ served = SlotOfDay

-----------------------------------------------------------------------------
(* Properties of one cycle against the cycles before it *)

\* a cycle has run to its end and the loop has it behind it
CycleDone == pc \in {"loop", "sleeping"} /\ steps # << >>

\* a call of the cycle that returned an error
Failed(step) == \E i \in 1..Len(steps) : steps[i].step = step /\ ~steps[i].ok

\* what the evaluator makes of the cycle's own response at the cycle's own
\* time, under the configuration
OwnEvaluation ==
    checkWeatherForTheDay(weatherData, config.WindGustThreshold, startOfDay)

\* the end of a cycle as its own responses, its own time and the
\* configuration give it, with nothing of an earlier cycle in it
OwnOutcome ==
    IF Failed("geocode") THEN "geocode_error"
    ELSE IF Failed("fetch") THEN "fetch_error"
    ELSE IF Len(weatherData) = 0 THEN "no_data"
    ELSE IF ~OwnEvaluation.exceedsThreshold THEN "no_alert"
    ELSE IF Failed("compose") THEN "compose_error"
    ELSE IF Failed("send") THEN "send_error"
    ELSE "sent"

\* C16: a cycle is stateless relative to the cycles before it: whether it
\* sends, and the maximum gust it reports, are a function of the
\* configuration, the cycle's time and the cycle's own responses alone, so an
\* alert already sent in an earlier cycle is sent again.
C16_StatelessCycle ==
    CycleDone =>
        /\ outcome = OwnOutcome
        /\ (TimesCalled("send") = 1) <=> (OwnOutcome \in {"sent", "send_error"})
        /\ TimesCalled("send") <= 1
        /\ (OwnOutcome \in {"compose_error", "send_error", "sent"}) =>
              maxWindGust = findMaxWindGust(OwnEvaluation.forecasts)

\* a cycle that comes after a cycle that sent has reached its own send
C16_Witness ==
    /\ pc = "send"
    /\ outcome = "sent"
    /\ TimesCalled("compose") = 1

-----------------------------------------------------------------------------
(* Properties of the alert path *)

\* the cycle is composing or sending, or has ended in compose or send
OnAlertPath ==
    \/ pc \in {"compose", "send"}
    \/ CycleDone /\ outcome \in {"compose_error", "send_error", "sent"}

\* C18: in every cycle that reaches compose or send the reported maximum
\* gust is strictly greater than the configured threshold and is the gust of
\* a forecast point inside today's daytime window; the 0 of an empty
\* qualifying list never reaches a message.
C18_AlertPathMaximum ==
    OnAlertPath =>
        /\ maxWindGust > config.WindGustThreshold
        /\ maxWindGust # 0
        /\ Len(forecasts) > 0
        /\ \E i \in 1..Len(weatherData) :
              /\ weatherData[i].gust = maxWindGust
              /\ DaytimeWindow(weatherData[i].dt, startOfDay)

\* a message is being composed while the response holds a stronger gust
\* outside the window
C18_Witness ==
    /\ pc = "compose"
    /\ maxWindGust > config.WindGustThreshold
    /\ \E i \in 1..Len(weatherData) :
          /\ weatherData[i].gust > maxWindGust
          /\ ~DaytimeWindow(weatherData[i].dt, startOfDay)

-----------------------------------------------------------------------------
(* Properties of the fixed-interval variant *)

InIntervalCheck == pc \in {"igeocode", "ifetch", "ievaluate", "isend"}

IntervalCheckDone == pc \in {"newticker", "select"}

Succeeded(step) == \E i \in 1..Len(steps) : steps[i].step = step /\ steps[i].ok

\* one check at start-up before the ticker exists, every tick kept for its
\* check, one check's calls at a time, and an alert exactly for a first
\* forecast above the threshold
IntervalInvariant ==
    /\ (Loaded /\ ticker = NoTicker) => (InIntervalCheck \/ pc = "newticker")
    /\ ~ticker.dropped
    /\ \A i \in 1..Len(Pipeline) : TimesCalled(Pipeline[i]) <= 1
    /\ IntervalCheckDone =>
          ((TimesCalled("send") = 1) <=>
              /\ Succeeded("fetch")
              /\ Len(weatherData) > 0
              /\ weatherData[1].gust > WindGustThreshold)

====
